---------------------------- MODULE Spec2Model ----------------------------
(***************************************************************************)
(* A model of hackrf_one_mqtt: the bounded hand-off queue                  *)
(* (include/thread_safe_queue.h), the device handler                       *)
(* (src/hackrf_handler.cpp), the transport client (src/mqtt_client.cpp)    *)
(* and the threads of src/main.cpp.                                        *)
(*                                                                         *)
(* Every thread has a call stack pc[t] of code positions; the head is the  *)
(* position the thread is at.  A call pushes the callee's first position,  *)
(* a return pops it.                                                       *)
(***************************************************************************)
EXTENDS Integers, Sequences, FiniteSets

\* ------------------------------------------------------------------ bounds
\* The number of push calls a queue client makes in SpecQ.
MaxItems == 4
\* The largest max_size a queue is constructed with in SpecQ (0 = unbounded).
MaxCapacity == 2
\* The number of buffers the device runtime delivers in Spec.
MaxCallbacks == 1
\* The number of buffers the device delivers in SpecPipe.
MaxBuffers == 2

\* The number of messages the broker delivers in SpecCtl.
MaxControl == 3

\* The number of messages the broker delivers in Spec.
MaxCommands == 2
\* The number of connect / disconnect callbacks the transport makes in Spec.
MaxConnEvents == 2
\* The number of messages the broker delivers in SpecConn.
MaxMessages == 1

\* ----------------------------------------------------------------- threads
\* "main": main(); "net": the transport's network thread; "pub": the
\* publisher thread; "dev": the device runtime's transfer thread; "aux": a
\* second popping thread, used only by the queue's own specification.
Threads == {"main", "net", "pub", "dev", "aux"}

NoThread == "none"

VARIABLES
    pc,          \* [Threads -> Seq(STRING)]: each thread's call stack
    arg,         \* [Threads -> value]: the argument of the thread's queue call
    ret,         \* [Threads -> BOOLEAN]: the last boolean a call returned
    popret,      \* [Threads -> <<>> or <<v>>]: the last optional a pop returned
    queue_,      \* ThreadSafeQueue::queue_
    max_size_,   \* ThreadSafeQueue::max_size_
    mutex_,      \* ThreadSafeQueue::mutex_: its holder, or NoThread
    condition_,  \* ThreadSafeQueue::condition_: the threads blocked in a wait
    nextId,      \* SpecQ: the next item a client pushes
    pushed,      \* SpecQ history: the items whose try_push returned true
    popped,      \* SpecQ history: the items pops returned, in return order
    rejected,    \* SpecQ history: the items whose try_push returned false
    lastpop,     \* SpecQ history: the position each thread's last pop returned from
    keep_running,                \* main.cpp: volatile sig_atomic_t keep_running
    publisher_should_run,        \* main(): std::atomic<bool>
    hackrf_should_be_streaming,  \* main(): std::atomic<bool>
    device_,               \* HackRFHandler::device_: NULL or the handle
    streaming_,            \* HackRFHandler::streaming_
    rx_callback_context_,  \* HackRFHandler::rx_callback_context_
    devOpen,       \* the device library: the handle is open (not yet closed)
    devStreaming,  \* the device library: the callback is registered and invoked
    connected_flag_,  \* MqttClient::connected_flag_
    loop_started,     \* the transport's network loop: "no", "connecting", "disconnecting"
    subscribed,       \* the transport: the control topic has been subscribed
    time_waited_ms,   \* main(): the connect wait's counter
    exit_code,        \* main()'s return value, -1 while it runs
    params_ok,        \* whether every device parameter setter has succeeded
    transfer,         \* the hackrf_transfer of the callback in progress
    cb_result,        \* what the last hackrf_rx_callback returned
    cb_saw,           \* the value the callback in progress read from keep_running
    cb_reads,         \* how often the callback in progress read keep_running
    cb_offered,       \* whether the callback in progress called try_push
    message,          \* the message on_message is handling
    rc,               \* the publisher thread's rc
    nCallbacks,       \* the buffers delivered so far
    nCommands,        \* the messages delivered so far
    nConnEvents,      \* the connect / disconnect callbacks made so far
    cur,              \* SpecCtl history: the control command in progress
    prev,             \* SpecCtl history: the control command handled before it
    main_steps,       \* history: the startup and shutdown steps main() has taken
    delivered,        \* history: the non-empty transfers given to the callback
    published,        \* history: the payloads given to mosquittopp::publish
    last_conn         \* history: the transport's last connection callback

qvars == <<queue_, max_size_, mutex_, condition_>>
calls == <<arg, ret, popret>>
hvars == <<nextId, pushed, popped, rejected, lastpop>>
gflags == <<keep_running, publisher_should_run, hackrf_should_be_streaming>>
hstate == <<device_, streaming_, rx_callback_context_>>
dstate == <<devOpen, devStreaming>>
mstate == <<connected_flag_, loop_started, subscribed>>
mainloc == <<time_waited_ms, exit_code, params_ok>>
devloc == <<transfer, cb_result, cb_saw, cb_reads, cb_offered, nCallbacks>>
netloc == <<message, nCommands, nConnEvents>>
cmdhist == <<cur, prev>>
dhist == <<delivered, published, last_conn>>
chist == <<cmdhist, main_steps, dhist>>
pvars == <<gflags, hstate, dstate, mstate, mainloc, devloc, netloc, rc>>
vars == <<pc, calls, qvars, hvars, pvars, chist>>

\* ------------------------------------------------------------- call stacks
Top(t) == Head(pc[t])

At(t, label) == pc[t] # <<>> /\ Top(t) = label

\* The thread moves to another position of the same function.
Goto(t, label) == pc' = [pc EXCEPT ![t] = <<label>> \o Tail(pc[t])]

\* The thread calls a function whose first position is `callee`; it is at
\* `after` when the callee has returned.
Call(t, callee, after) == pc' = [pc EXCEPT ![t] = <<callee, after>> \o Tail(pc[t])]

\* The thread returns from its current function.
Return(t) == pc' = [pc EXCEPT ![t] = Tail(pc[t])]

Range(s) == {s[i] : i \in 1..Len(s)}

\* ---------------------------------------------------------- ThreadSafeQueue
\* std::mutex::lock, by lock_guard / unique_lock construction.
MutexFree == mutex_ = NoThread

\* A faulty test that admits one item too many; C1_BoundedOccupancy fails
\* with it.
QueueFull_OffByOne == max_size_ > 0 /\ Len(queue_) > max_size_

\* The test of try_push.
QueueFull == max_size_ > 0 /\ Len(queue_) >= max_size_

\* The predicate of both waits: [this] { return !queue_.empty(); }.
NotEmpty == queue_ # <<>>

\* A faulty try_push that notifies nobody; C31_NoLostWakeup fails with it.
NotifyOne_Nobody == condition_' = condition_

\* condition_.notify_one(): one blocked thread, if any, is released.
NotifyOne ==
    IF condition_ = {}
    THEN condition_' = condition_
    ELSE \E w \in condition_ : condition_' = condition_ \ {w}

\* A faulty pop that takes the newest item; C2_Fifo fails with it.
PopFront_Lifo(t) ==
    /\ popret' = [popret EXCEPT ![t] = <<queue_[Len(queue_)]>>]
    /\ queue_' = SubSeq(queue_, 1, Len(queue_) - 1)

\* A faulty pop that returns the head and leaves it stored;
\* C5_Conservation fails with it.
PopFront_NoRemove(t) ==
    /\ popret' = [popret EXCEPT ![t] = <<Head(queue_)>>]
    /\ queue_' = queue_

\* front() + pop(): the head is moved out and returned.
PopFront(t) ==
    /\ popret' = [popret EXCEPT ![t] = <<Head(queue_)>>]
    /\ queue_' = Tail(queue_)

\* A faulty try_push that makes room by dropping the oldest item;
\* C3_DropOnFull fails with it.
TryPushBody_DropOldest(t) ==
    /\ queue_' = Append(IF QueueFull THEN Tail(queue_) ELSE queue_, arg[t])
    /\ NotifyOne
    /\ ret' = [ret EXCEPT ![t] = TRUE]

\* What try_push does with the mutex held.
TryPushBody(t) ==
    IF QueueFull
    THEN /\ ret' = [ret EXCEPT ![t] = FALSE]
         /\ UNCHANGED <<queue_, condition_>>
    ELSE /\ queue_' = Append(queue_, arg[t])
         /\ NotifyOne
         /\ ret' = [ret EXCEPT ![t] = TRUE]

try_push(t) ==
    \/ /\ At(t, "try_push:lock")
       /\ MutexFree
       /\ mutex_' = t
       /\ Goto(t, "try_push:body")
       /\ UNCHANGED <<arg, ret, popret, queue_, max_size_, condition_>>
    \/ /\ At(t, "try_push:body")
       /\ TryPushBody(t)
       /\ mutex_' = NoThread
       /\ Return(t)
       /\ UNCHANGED <<arg, popret, max_size_>>

\* push(value): try_push, its result ignored.
push(t) ==
    \/ /\ At(t, "push:call")
       /\ Call(t, "try_push:lock", "push:ret")
       /\ UNCHANGED <<arg, ret, popret, qvars>>
    \/ /\ At(t, "push:ret")
       /\ Return(t)
       /\ UNCHANGED <<arg, ret, popret, qvars>>

\* A faulty wait that blocks with the mutex still held; C6_ProducerNotBlocked
\* fails with it.
BlockOnCondition_KeepMutex(t) ==
    /\ mutex_' = mutex_
    /\ condition_' = condition_ \cup {t}

\* condition_.wait(lock): the mutex is released and the thread blocks.
BlockOnCondition(t) ==
    /\ mutex_' = NoThread
    /\ condition_' = condition_ \cup {t}

\* A blocked thread leaves the wait: it was notified (it is no longer in
\* condition_) or it wakes spuriously.
LeaveWait(t) == condition_' = condition_ \ {t}

wait_and_pop(t) ==
    \/ /\ At(t, "wait_and_pop:lock")
       /\ MutexFree
       /\ mutex_' = t
       /\ Goto(t, "wait_and_pop:pred")
       /\ UNCHANGED <<arg, ret, popret, queue_, max_size_, condition_>>
    \/ /\ At(t, "wait_and_pop:pred")
       /\ IF NotEmpty
          THEN /\ PopFront(t)
               /\ mutex_' = NoThread
               /\ Return(t)
               /\ UNCHANGED condition_
          ELSE /\ BlockOnCondition(t)
               /\ Goto(t, "wait_and_pop:wait")
               /\ UNCHANGED <<popret, queue_>>
       /\ UNCHANGED <<arg, ret, max_size_>>
    \/ /\ At(t, "wait_and_pop:wait")
       /\ LeaveWait(t)
       /\ Goto(t, "wait_and_pop:lock")
       /\ UNCHANGED <<arg, ret, popret, queue_, max_size_, mutex_>>

try_pop(t) ==
    \/ /\ At(t, "try_pop:lock")
       /\ MutexFree
       /\ mutex_' = t
       /\ Goto(t, "try_pop:body")
       /\ UNCHANGED <<arg, ret, popret, queue_, max_size_, condition_>>
    \/ /\ At(t, "try_pop:body")
       /\ IF NotEmpty
          THEN PopFront(t)
          ELSE /\ popret' = [popret EXCEPT ![t] = <<>>]
               /\ UNCHANGED queue_
       /\ mutex_' = NoThread
       /\ Return(t)
       /\ UNCHANGED <<arg, ret, max_size_, condition_>>

\* A faulty wait_for that reports the timeout without looking at the queue
\* again; C4_TimedPop fails with it.
WaitForTimedOutResult_Stale == FALSE

\* What wait_for returns once the timeout has expired and the mutex is held
\* again: the predicate, evaluated one more time.
WaitForTimedOutResult == NotEmpty

wait_for_and_pop(t) ==
    \/ /\ At(t, "wait_for_and_pop:lock")
       /\ MutexFree
       /\ mutex_' = t
       /\ Goto(t, "wait_for_and_pop:pred")
       /\ UNCHANGED <<arg, ret, popret, queue_, max_size_, condition_>>
    \/ /\ At(t, "wait_for_and_pop:pred")
       /\ IF NotEmpty
          THEN /\ PopFront(t)
               /\ mutex_' = NoThread
               /\ Return(t)
               /\ UNCHANGED condition_
          ELSE /\ BlockOnCondition(t)
               /\ Goto(t, "wait_for_and_pop:wait")
               /\ UNCHANGED <<popret, queue_>>
       /\ UNCHANGED <<arg, ret, max_size_>>
    \/ \* notified, or a spurious wake-up: the loop of wait_for goes on
       /\ At(t, "wait_for_and_pop:wait")
       /\ LeaveWait(t)
       /\ Goto(t, "wait_for_and_pop:lock")
       /\ UNCHANGED <<arg, ret, popret, queue_, max_size_, mutex_>>
    \/ \* rel_time has expired
       /\ At(t, "wait_for_and_pop:wait")
       /\ LeaveWait(t)
       /\ Goto(t, "wait_for_and_pop:relock")
       /\ UNCHANGED <<arg, ret, popret, queue_, max_size_, mutex_>>
    \/ /\ At(t, "wait_for_and_pop:relock")
       /\ MutexFree
       /\ mutex_' = t
       /\ Goto(t, "wait_for_and_pop:timedout")
       /\ UNCHANGED <<arg, ret, popret, queue_, max_size_, condition_>>
    \/ /\ At(t, "wait_for_and_pop:timedout")
       /\ IF WaitForTimedOutResult
          THEN PopFront(t)
          ELSE /\ popret' = [popret EXCEPT ![t] = <<>>]
               /\ UNCHANGED queue_
       /\ mutex_' = NoThread
       /\ Return(t)
       /\ UNCHANGED <<arg, ret, max_size_, condition_>>

\* ------------------------------------------------------ program state
NULL == "NULL"
Handle == "device"
QueueContext == "&iq_data_queue"
NoMessage == [topic |-> "none", payload |-> "none"]
NoTransfer == [buffer |-> <<>>, valid_length |-> 0]
NoCommand == [cmd |-> "none", pre |-> "none", calls |-> <<>>, ok |-> "none"]
NoCallback == <<"none", 0>>

\* The state once main() has constructed its objects (lines 144-195); the
\* queue's max_size is data_queue_max_size of the configuration.
InitProgram ==
    /\ keep_running = 1
    /\ publisher_should_run = TRUE
    /\ hackrf_should_be_streaming = TRUE
    /\ device_ = NULL
    /\ streaming_ = FALSE
    /\ rx_callback_context_ = NULL
    /\ devOpen = FALSE
    /\ devStreaming = FALSE
    /\ connected_flag_ = FALSE
    /\ loop_started = "no"
    /\ subscribed = FALSE
    /\ time_waited_ms = 0
    /\ exit_code = -1
    /\ params_ok = TRUE
    /\ transfer = NoTransfer
    /\ cb_result = 0
    /\ cb_saw = 1
    /\ cb_reads = 0
    /\ cb_offered = FALSE
    /\ message = NoMessage
    /\ rc = "MOSQ_ERR_SUCCESS"
    /\ nCallbacks = 0
    /\ nCommands = 0
    /\ nConnEvents = 0
    /\ last_conn = NoCallback

\* The process runs until main() returns.
ProcessRunning == pc["main"] # <<>>

SetRet(t, v) == ret' = [ret EXCEPT ![t] = v]

\* The caller has used (or ignored) what its callee returned.
DropRet(t) == ret' = [ret EXCEPT ![t] = FALSE]

\* ------------------------------------------------------------ HackRFHandler
\* The handler's methods run on the thread that calls them: main() or, from
\* the control command handler, the network thread.

\* The exit status of a process killed by SIGSEGV.
Killed == 128 + 11

\* A device call on a handle that hackrf_close has freed has undefined
\* behaviour: it may return like a call on an open handle, with any result,
\* or fault, which ends the process.
Crash ==
    /\ ~devOpen
    /\ pc' = [u \in Threads |-> <<>>]
    /\ exit_code' = Killed
    /\ UNCHANGED <<calls, qvars, hvars, gflags, hstate, dstate, mstate,
                   time_waited_ms, params_ok, devloc, netloc, rc>>

\* hackrf_is_streaming(device_) as is_streaming() may see it.
IsStreamingResults ==
    IF device_ = NULL THEN {FALSE}
    ELSE IF devOpen THEN {devStreaming}
    ELSE BOOLEAN

is_streaming(t) ==
    \/ /\ At(t, "is_streaming")
       /\ \E r \in IsStreamingResults : SetRet(t, r)
       /\ Return(t)
       /\ UNCHANGED <<arg, popret, qvars, hvars, gflags, hstate, dstate,
                      mstate, mainloc, devloc, netloc, rc>>
    \/ /\ At(t, "is_streaming")
       /\ device_ # NULL
       /\ Crash

\* The device runtime's transfer thread is not inside the callback: a
\* successful hackrf_stop_rx or hackrf_close returns only then.
CallbackQuiescent == pc["dev"] = <<"dev:idle">>

\* The tests start_rx makes before it calls the device (lines 137-144).
StartRxRefused == device_ = NULL \/ streaming_

\* The outcomes of hackrf_start_rx(device_, callback, context): the
\* streaming state the device is left in and whether the call succeeded.
\* The device accepts or refuses the registration.  device_ is read without
\* synchronisation, so the handle passed may be one that deinit() has closed
\* since start_rx tested it.
HackrfStartRxOutcomes ==
    {<<TRUE, TRUE>>, <<devStreaming, FALSE>>}

start_rx(t) ==
    \/ /\ At(t, "start_rx:check")
       /\ IF StartRxRefused
          THEN /\ SetRet(t, FALSE)
               /\ Return(t)
               /\ UNCHANGED rx_callback_context_
          ELSE /\ rx_callback_context_' = QueueContext
               /\ Goto(t, "start_rx:call")
               /\ UNCHANGED ret
       /\ UNCHANGED <<arg, popret, qvars, hvars, gflags, device_, streaming_,
                      dstate, mstate, mainloc, devloc, netloc, rc>>
    \/ /\ At(t, "start_rx:call")
       /\ \E o \in HackrfStartRxOutcomes :
            /\ devStreaming' = o[1]
            /\ IF o[2]
               THEN Goto(t, "start_rx:started") /\ UNCHANGED ret
               ELSE SetRet(t, FALSE) /\ Return(t)
       /\ UNCHANGED <<arg, popret, qvars, hvars, gflags, hstate, devOpen,
                      mstate, mainloc, devloc, netloc, rc>>
    \/ /\ At(t, "start_rx:call")
       /\ Crash
    \/ /\ At(t, "start_rx:started")
       /\ streaming_' = TRUE
       /\ SetRet(t, TRUE)
       /\ Return(t)
       /\ UNCHANGED <<arg, popret, qvars, hvars, gflags, device_,
                      rx_callback_context_, dstate, mstate, mainloc, devloc,
                      netloc, rc>>

\* The test stop_rx makes before it calls the device (line 157).
StopRxRefused == device_ = NULL \/ ~streaming_

\* The outcomes of hackrf_stop_rx(device_): the streaming state the device
\* is left in and whether the call succeeded.  A successful stop has waited
\* for the callback in progress; a failed one leaves the device as it is.
HackrfStopRxOutcomes ==
    {<<devStreaming, FALSE>>}
        \cup (IF CallbackQuiescent THEN {<<FALSE, TRUE>>} ELSE {})

stop_rx(t) ==
    \/ /\ At(t, "stop_rx:check")
       /\ IF StopRxRefused
          THEN SetRet(t, FALSE) /\ Return(t)
          ELSE Goto(t, "stop_rx:call") /\ UNCHANGED ret
       /\ UNCHANGED <<arg, popret, qvars, hvars, gflags, hstate, dstate,
                      mstate, mainloc, devloc, netloc, rc>>
    \/ /\ At(t, "stop_rx:call")
       /\ \E o \in HackrfStopRxOutcomes :
            /\ devStreaming' = o[1]
            /\ Goto(t, IF o[2] THEN "stop_rx:stopped" ELSE "stop_rx:failed")
       /\ UNCHANGED <<calls, qvars, hvars, gflags, hstate, devOpen, mstate,
                      mainloc, devloc, netloc, rc>>
    \/ /\ At(t, "stop_rx:call")
       /\ Crash
    \/ /\ At(t, "stop_rx:failed")
       /\ streaming_' = FALSE
       /\ SetRet(t, FALSE)
       /\ Return(t)
       /\ UNCHANGED <<arg, popret, qvars, hvars, gflags, device_,
                      rx_callback_context_, dstate, mstate, mainloc, devloc,
                      netloc, rc>>
    \/ /\ At(t, "stop_rx:stopped")
       /\ streaming_' = FALSE
       /\ rx_callback_context_' = NULL
       /\ SetRet(t, TRUE)
       /\ Return(t)
       /\ UNCHANGED <<arg, popret, qvars, hvars, gflags, device_, dstate,
                      mstate, mainloc, devloc, netloc, rc>>

deinit(t) ==
    \/ /\ At(t, "deinit:check")
       /\ IF streaming_
          THEN Call(t, "stop_rx:check", "deinit:close")
          ELSE Goto(t, "deinit:close")
       /\ UNCHANGED <<calls, qvars, hvars, pvars>>
    \/ \* hackrf_close stops a streaming device and waits for its callback
       /\ At(t, "deinit:close")
       /\ IF device_ # NULL
          THEN /\ ~devStreaming \/ CallbackQuiescent
               /\ devOpen' = FALSE
               /\ devStreaming' = FALSE
               /\ Goto(t, "deinit:null")
          ELSE /\ Return(t)
               /\ UNCHANGED dstate
       /\ DropRet(t)
       /\ UNCHANGED <<arg, popret, qvars, hvars, gflags, hstate, mstate,
                      mainloc, devloc, netloc, rc>>
    \/ /\ At(t, "deinit:null")
       /\ device_' = NULL
       /\ Return(t)
       /\ UNCHANGED <<calls, qvars, hvars, gflags, streaming_,
                      rx_callback_context_, dstate, mstate, mainloc, devloc,
                      netloc, rc>>

\* init(): hackrf_init and hackrf_open succeed or one of them fails.
init(t) ==
    /\ At(t, "init")
    /\ IF device_ # NULL
       THEN SetRet(t, TRUE) /\ UNCHANGED <<device_, devOpen>>
       ELSE \E ok \in BOOLEAN :
              /\ device_' = IF ok THEN Handle ELSE NULL
              /\ devOpen' = ok
              /\ SetRet(t, ok)
    /\ Return(t)
    /\ UNCHANGED <<arg, popret, qvars, hvars, gflags, streaming_,
                   rx_callback_context_, devStreaming, mstate, mainloc,
                   devloc, netloc, rc>>

\* --------------------------------------------------------------- MqttClient
\* The result codes of a publish the model tells apart.
PublishResults == {"MOSQ_ERR_SUCCESS", "MOSQ_ERR_NO_CONN", "MOSQ_ERR_NOMEM"}

publish_message(t) ==
    \/ /\ At(t, "publish_message:check")
       /\ IF ~connected_flag_
          THEN rc' = "MOSQ_ERR_NO_CONN" /\ Return(t)
          ELSE Goto(t, "publish_message:publish") /\ UNCHANGED rc
       /\ UNCHANGED <<calls, qvars, hvars, gflags, hstate, dstate, mstate,
                      mainloc, devloc, netloc>>
    \/ \* mosquittopp::publish: it returns when the library lets it
       /\ At(t, "publish_message:publish")
       /\ \E r \in PublishResults : rc' = r
       /\ Return(t)
       /\ UNCHANGED <<calls, qvars, hvars, gflags, hstate, dstate, mstate,
                      mainloc, devloc, netloc>>

\* on_connect(rc), called by the network thread; rc = 0 is success.
ConnectResults == {0, 5}

\* A faulty test that takes every result code for success;
\* C23_FlagFollowsCallbacks fails with it.
ConnectAccepted_Any(r) == TRUE

\* The test of line 132.
ConnectAccepted(r) == r = 0

on_connect(r) ==
    /\ At("net", "net:idle")
    /\ ProcessRunning
    /\ ~connected_flag_
    /\ loop_started = "connecting"
    /\ nConnEvents < MaxConnEvents
    /\ nConnEvents' = nConnEvents + 1
    /\ connected_flag_' = ConnectAccepted(r)
    /\ subscribed' = (subscribed \/ ConnectAccepted(r))
    /\ UNCHANGED <<pc, calls, qvars, hvars, gflags, hstate, dstate,
                   loop_started, mainloc, devloc, message, nCommands, rc>>

\* on_disconnect(rc): the connection was lost, or disconnect() was called.
on_disconnect ==
    /\ At("net", "net:idle")
    /\ ProcessRunning
    /\ connected_flag_
    /\ loop_started = "disconnecting" \/ nConnEvents < MaxConnEvents
    /\ nConnEvents' = IF loop_started = "disconnecting"
                      THEN nConnEvents ELSE nConnEvents + 1
    /\ connected_flag_' = FALSE
    /\ UNCHANGED <<pc, calls, qvars, hvars, gflags, hstate, dstate,
                   loop_started, subscribed, mainloc, devloc, message,
                   nCommands, rc>>

Topics == {"control_topic", "other_topic"}
Payloads == {"PAUSE", "RESUME", "STATUS", "pause"}

\* A faulty test that hands every message to the callback;
\* C25_UnknownCommandIgnored fails with it.
IsControlMessage_Any(m) == TRUE

\* Whether on_message hands the message to the control command callback.
IsControlMessage(m) == m.topic = "control_topic"

on_message(limit) ==
    \/ \* the broker delivers a message
       /\ At("net", "net:idle")
       /\ ProcessRunning
       /\ subscribed
       /\ nCommands < limit
       /\ nCommands' = nCommands + 1
       /\ \E tp \in Topics, pl \in Payloads :
            message' = [topic |-> tp, payload |-> pl]
       /\ Call("net", "on_message", "net:idle")
       /\ UNCHANGED <<calls, qvars, hvars, gflags, hstate, dstate, mstate,
                      mainloc, devloc, nConnEvents, rc>>
    \/ /\ At("net", "on_message")
       /\ ProcessRunning
       /\ IF IsControlMessage(message)
          THEN /\ Call("net", "cch:entry", "on_message:handled")
               /\ UNCHANGED message
          ELSE /\ Return("net")
               /\ message' = NoMessage
       /\ UNCHANGED <<calls, qvars, hvars, gflags, hstate, dstate, mstate,
                      mainloc, devloc, nCommands, nConnEvents, rc>>
    \/ /\ At("net", "on_message:handled")
       /\ ProcessRunning
       /\ Return("net")
       /\ UNCHANGED <<calls, qvars, hvars, pvars>>

\* ------------------------------------------------- control_command_handler
\* The composite streaming state: the expected flag and the device's own.
CompositeState ==
    IF hackrf_should_be_streaming /\ devStreaming THEN "streaming"
    ELSE IF ~hackrf_should_be_streaming /\ ~devStreaming THEN "paused"
    ELSE "mixed"

\* A faulty PAUSE test that does not look at the expected flag;
\* C8_IdempotentCommands fails with it.
PauseWanted_Always == TRUE

\* The first operand of the PAUSE test (line 164).
PauseWanted == hackrf_should_be_streaming

\* The first operand of the RESUME test (line 172).
ResumeWanted == ~hackrf_should_be_streaming

\* A faulty RESUME that sets the flag whatever start_rx returned;
\* C19_FailedResumeStaysPaused fails with it.
FlagAfterResume_Always(started) == TRUE

\* Lines 174-178: the flag is set only when start_rx returned true.
FlagAfterResume(started) ==
    IF started THEN TRUE ELSE hackrf_should_be_streaming

control_command_handler(t) ==
    \/ /\ At(t, "cch:entry")
       /\ CASE message.payload = "PAUSE" ->
                 IF PauseWanted
                 THEN Call(t, "is_streaming", "cch:pause_test")
                 ELSE Return(t)
            [] message.payload = "RESUME" ->
                 IF ResumeWanted
                 THEN Call(t, "is_streaming", "cch:resume_test")
                 ELSE Return(t)
            [] OTHER -> Return(t)
       /\ message' = NoMessage   \* the payload is not read again
       /\ UNCHANGED <<calls, qvars, hvars, gflags, hstate, dstate, mstate,
                      mainloc, devloc, nCommands, nConnEvents, rc>>
    \/ /\ At(t, "cch:pause_test")
       /\ IF ret[t]
          THEN Call(t, "stop_rx:check", "cch:pause_set")
          ELSE Return(t)
       /\ DropRet(t)
       /\ UNCHANGED <<arg, popret, qvars, hvars, pvars>>
    \/ /\ At(t, "cch:pause_set")
       /\ hackrf_should_be_streaming' = FALSE
       /\ Return(t)
       /\ DropRet(t)
       /\ UNCHANGED <<arg, popret, qvars, hvars, keep_running,
                      publisher_should_run, hstate, dstate, mstate, mainloc,
                      devloc, netloc, rc>>
    \/ /\ At(t, "cch:resume_test")
       /\ IF ~ret[t]
          THEN Call(t, "start_rx:check", "cch:resume_ret")
          ELSE Return(t)
       /\ DropRet(t)
       /\ UNCHANGED <<arg, popret, qvars, hvars, pvars>>
    \/ /\ At(t, "cch:resume_ret")
       /\ hackrf_should_be_streaming' = FlagAfterResume(ret[t])
       /\ Return(t)
       /\ DropRet(t)
       /\ UNCHANGED <<arg, popret, qvars, hvars, keep_running,
                      publisher_should_run, hstate, dstate, mstate, mainloc,
                      devloc, netloc, rc>>

\* ------------------------------------------------------- hackrf_rx_callback
\* The buffers the device runtime delivers: a buffer and its valid_length.
Transfers ==
    { [buffer |-> <<1, 2>>, valid_length |-> 0],
      [buffer |-> <<1, 2>>, valid_length |-> 1],
      [buffer |-> <<2, 1>>, valid_length |-> 2] }

\* A faulty copy that takes the whole buffer; C22_EndToEnd fails with it.
Chunk_Whole(tr) == tr.buffer

\* std::vector(buffer, buffer + valid_length)
Chunk(tr) == SubSeq(tr.buffer, 1, tr.valid_length)

\* A faulty test that also offers an empty chunk; C7_CallbackContract fails
\* with it.
ShouldOffer_Empty(tr) == QueueContext # NULL /\ tr.valid_length >= 0

\* The test of line 38; rx_ctx is the context start_rx registered.
ShouldOffer(tr) == QueueContext # NULL /\ tr.valid_length > 0

\* The callback's answer to the device runtime for a read of keep_running.
StopSignal(flag) == IF flag = 0 THEN -1 ELSE 0

hackrf_rx_callback(t) ==
    \/ /\ At(t, "cb:entry")
       /\ cb_saw' = keep_running
       /\ cb_reads' = cb_reads + 1
       /\ IF StopSignal(keep_running) # 0
          THEN /\ cb_result' = StopSignal(keep_running)
               /\ Return(t)
               /\ UNCHANGED <<arg, cb_offered>>
          ELSE IF ShouldOffer(transfer)
          THEN /\ arg' = [arg EXCEPT ![t] = Chunk(transfer)]
               /\ cb_offered' = TRUE
               /\ Call(t, "try_push:lock", "cb:pushed")
               /\ UNCHANGED cb_result
          ELSE /\ cb_result' = 0
               /\ Return(t)
               /\ UNCHANGED <<arg, cb_offered>>
       /\ UNCHANGED <<ret, popret, qvars, hvars, gflags, hstate, dstate,
                      mstate, mainloc, transfer, nCallbacks, netloc, rc>>
    \/ /\ At(t, "cb:pushed")
       /\ cb_result' = 0
       /\ Return(t)
       /\ DropRet(t)
       /\ arg' = [arg EXCEPT ![t] = <<>>]
       /\ UNCHANGED <<popret, qvars, hvars, gflags, hstate, dstate, mstate,
                      mainloc, transfer, cb_saw, cb_reads, cb_offered,
                      nCallbacks, netloc, rc>>

\* The device runtime's transfer thread: while the device streams it calls
\* the callback for each buffer, and stops streaming when the callback
\* returns non-zero.
device_runtime(limit) ==
    \/ /\ At("dev", "dev:idle")
       /\ ProcessRunning
       /\ devStreaming
       /\ nCallbacks < limit
       /\ nCallbacks' = nCallbacks + 1
       /\ \E tr \in Transfers : transfer' = tr
       /\ Call("dev", "cb:entry", "dev:returned")
       /\ UNCHANGED <<calls, qvars, hvars, gflags, hstate, dstate, mstate,
                      mainloc, cb_result, cb_saw, cb_reads, cb_offered,
                      netloc, rc>>
    \/ /\ At("dev", "dev:returned")
       /\ ProcessRunning
       /\ devStreaming' = IF cb_result # 0 THEN FALSE ELSE devStreaming
       /\ transfer' = NoTransfer
       /\ cb_result' = 0
       /\ cb_saw' = 1
       /\ cb_reads' = 0
       /\ cb_offered' = FALSE
       /\ Goto("dev", "dev:idle")
       /\ UNCHANGED <<calls, qvars, hvars, gflags, hstate, devOpen, mstate,
                      mainloc, nCallbacks, netloc, rc>>

\* --------------------------------------------- mqtt_publisher_thread_func
\* A faulty iteration that keeps its chunk; C24_NoRetry fails with it.
ClearChunk_Keep(t) == popret' = popret

\* data_chunk_opt is destroyed at the end of the iteration's body.
ClearChunk(t) == popret' = [popret EXCEPT ![t] = <<>>]

\* A faulty test that publishes whatever the flag is;
\* C21_PublishIffConnected fails with it.
PublishWanted_Always == TRUE

\* The test of line 63: mqtt_client.is_connected().
PublishWanted == connected_flag_

\* A faulty loop that ends when the stream is paused; C28_PauseKeepsQueue
\* fails with it.
ShouldRun_WhileStreaming == publisher_should_run /\ hackrf_should_be_streaming

\* The loop's test (line 57): should_run.load().
ShouldRun == publisher_should_run

mqtt_publisher_thread_func(t) ==
    \/ /\ At(t, "pub:loop")
       /\ IF ShouldRun
          THEN Call(t, "wait_for_and_pop:lock", "pub:got")
          ELSE pc' = [pc EXCEPT ![t] = <<>>]
       /\ UNCHANGED <<calls, qvars, hvars, pvars>>
    \/ /\ At(t, "pub:got")
       /\ IF popret[t] = <<>>
          THEN Goto(t, "pub:loop") /\ UNCHANGED popret
          ELSE IF PublishWanted
          THEN Call(t, "publish_message:check", "pub:rc") /\ UNCHANGED popret
          ELSE Goto(t, "pub:loop") /\ ClearChunk(t)
       /\ UNCHANGED <<arg, ret, qvars, hvars, pvars>>
    \/ /\ At(t, "pub:rc")
       /\ Goto(t, "pub:loop")
       /\ ClearChunk(t)
       /\ rc' = "MOSQ_ERR_SUCCESS"   \* rc is local to the iteration
       /\ UNCHANGED <<arg, ret, qvars, hvars, gflags, hstate, dstate, mstate,
                      mainloc, devloc, netloc>>

\* --------------------------------------------------------------------- main
ConnectTimeoutMs == 5000
ConnectPollMs == 100

Exit(code) ==
    /\ pc' = [pc EXCEPT !["main"] = <<>>]
    /\ exit_code' = code

\* A join that does not wait for the thread; C11_QuietAfterShutdown fails
\* with it.
PublisherFinished_NoWait == TRUE

\* publisher_thread.join() returns once the thread function has returned.
PublisherFinished == pc["pub"] = <<>>

\* One device parameter setter (lines 217-224): it fails without a device or
\* when the device refuses; main() does not look at what it returns.
Setter(here, next) ==
    /\ At("main", here)
    /\ \E ok \in (IF device_ = NULL THEN {FALSE} ELSE BOOLEAN) :
         params_ok' = (params_ok /\ ok)
    /\ Goto("main", next)
    /\ UNCHANGED <<calls, qvars, hvars, gflags, hstate, dstate, mstate,
                   time_waited_ms, exit_code, devloc, netloc, rc>>

\* A step of main() that changes nothing but its position.
Step(here, next) ==
    /\ At("main", here)
    /\ Goto("main", next)
    /\ UNCHANGED <<calls, qvars, hvars, pvars>>

CallFrom(here, callee, after) ==
    /\ At("main", here)
    /\ Call("main", callee, after)
    /\ UNCHANGED <<calls, qvars, hvars, pvars>>

\* A faulty shutdown step that leaves the run flag set; C17_SignalShutsDown
\* fails with it.
ClearRunFlag_Forgets(here, next) ==
    /\ At("main", here)
    /\ Goto("main", next)
    /\ UNCHANGED <<calls, qvars, hvars, pvars>>

\* publisher_should_run = false
ClearRunFlag(here, next) ==
    /\ At("main", here)
    /\ publisher_should_run' = FALSE
    /\ Goto("main", next)
    /\ UNCHANGED <<calls, qvars, hvars, keep_running,
                   hackrf_should_be_streaming, hstate, dstate, mstate,
                   mainloc, devloc, netloc, rc>>

\* if (publisher_thread.joinable()) publisher_thread.join()
Join(here, next) ==
    /\ At("main", here)
    /\ PublisherFinished
    /\ Goto("main", next)
    /\ UNCHANGED <<calls, qvars, hvars, pvars>>

\* if (mqtt_client.is_connected()) mqtt_client.disconnect_from_broker()
Disconnect(here, next) ==
    /\ At("main", here)
    /\ loop_started' = IF connected_flag_ THEN "disconnecting" ELSE loop_started
    /\ Goto("main", next)
    /\ UNCHANGED <<calls, qvars, hvars, gflags, hstate, dstate,
                   connected_flag_, subscribed, mainloc, devloc, netloc, rc>>

\* ~MqttClient(), run when main() returns: if (connected_flag_.load())
\* disconnect_from_broker().
DestroyClient ==
    loop_started' = IF connected_flag_ THEN "disconnecting" ELSE loop_started

\* return from main(): its locals are destroyed.  ~HackRFHandler() calls
\* deinit(), which finds device_ already null on every return.
ExitFrom(here, code) ==
    /\ At("main", here)
    /\ Exit(code)
    /\ DestroyClient
    /\ UNCHANGED <<calls, qvars, hvars, gflags, hstate, dstate,
                   connected_flag_, subscribed, time_waited_ms, params_ok,
                   devloc, netloc, rc>>

\* The condition of the wait (line 235).
WaitGoesOn ==
    ~connected_flag_ /\ time_waited_ms < ConnectTimeoutMs /\ keep_running = 1

main_startup ==
    \/ \* lines 144-145: the handler and the transport client are constructed
       Step("main:construct_client", "main:construct_queue")
    \/ \* line 154: the queue is constructed
       Step("main:construct_queue", "main:register_control")
    \/ \* lines 187-196: the control callback and the control topic are set
       Step("main:register_control", "main:start_thread")
    \/ \* line 199: the publisher thread starts
       /\ At("main", "main:start_thread")
       /\ pc' = [pc EXCEPT !["main"] = <<"main:init">>,
                           !["pub"] = <<"pub:loop">>]
       /\ UNCHANGED <<calls, qvars, hvars, pvars>>
    \/ CallFrom("main:init", "init", "main:init_ret")
    \/ /\ At("main", "main:init_ret")
       /\ Goto("main", IF ret["main"] THEN "main:set_frequency"
                       ELSE "main:f1_clear")
       /\ DropRet("main")
       /\ UNCHANGED <<arg, popret, qvars, hvars, pvars>>
    \/ Setter("main:set_frequency", "main:set_sample_rate")
    \/ Setter("main:set_sample_rate", "main:set_bandwidth")
    \/ Setter("main:set_bandwidth", "main:set_lna_gain")
    \/ Setter("main:set_lna_gain", "main:set_vga_gain")
    \/ Setter("main:set_vga_gain", "main:connect")
    \/ \* connect_to_broker(): loop_start and connect_async succeed, or not
       /\ At("main", "main:connect")
       /\ \E ok \in BOOLEAN :
            IF ok
            THEN /\ loop_started' = "connecting"
                 /\ pc' = [pc EXCEPT !["main"] = <<"main:wait">>,
                                     !["net"] = <<"net:idle">>]
            ELSE /\ Goto("main", "main:f2_deinit")
                 /\ UNCHANGED loop_started
       /\ UNCHANGED <<calls, qvars, hvars, gflags, hstate, dstate,
                      connected_flag_, subscribed, mainloc, devloc, netloc, rc>>
    \/ \* lines 235-238: the bounded wait for the connection
       /\ At("main", "main:wait")
       /\ IF WaitGoesOn
          THEN /\ time_waited_ms' = time_waited_ms + ConnectPollMs
               /\ UNCHANGED pc
          ELSE /\ Goto("main", "main:check_connected")
               /\ time_waited_ms' = 0   \* not read again
       /\ UNCHANGED <<calls, qvars, hvars, gflags, hstate, dstate, mstate,
                      exit_code, params_ok, devloc, netloc, rc>>
    \/ /\ At("main", "main:check_connected")
       /\ Goto("main", IF connected_flag_ THEN "main:initial_start"
                       ELSE "main:f3_deinit")
       /\ UNCHANGED <<calls, qvars, hvars, pvars>>
    \/ /\ At("main", "main:initial_start")
       /\ IF hackrf_should_be_streaming
          THEN Call("main", "start_rx:check", "main:initial_start_ret")
          ELSE Goto("main", "main:loop")
       /\ UNCHANGED <<calls, qvars, hvars, pvars>>
    \/ /\ At("main", "main:initial_start_ret")
       /\ Goto("main", IF ret["main"] THEN "main:loop"
                       ELSE "main:f4_disconnect")
       /\ DropRet("main")
       /\ UNCHANGED <<arg, popret, qvars, hvars, pvars>>

\* The exits of a failed startup.
main_failure ==
    \/ ClearRunFlag("main:f1_clear", "main:f1_join")
    \/ Join("main:f1_join", "main:f1_exit")
    \/ ExitFrom("main:f1_exit", 1)
    \/ CallFrom("main:f2_deinit", "deinit:check", "main:f2_exit")
    \/ ExitFrom("main:f2_exit", 1)
    \/ CallFrom("main:f3_deinit", "deinit:check", "main:f3_clear")
    \/ ClearRunFlag("main:f3_clear", "main:f3_join")
    \/ Join("main:f3_join", "main:f3_exit")
    \/ ExitFrom("main:f3_exit", 1)
    \/ Disconnect("main:f4_disconnect", "main:f4_deinit")
    \/ CallFrom("main:f4_deinit", "deinit:check", "main:f4_clear")
    \/ ClearRunFlag("main:f4_clear", "main:f4_join")
    \/ Join("main:f4_join", "main:f4_exit")
    \/ ExitFrom("main:f4_exit", 1)

\* The supervisory loop (lines 263-272).
main_loop ==
    \/ /\ At("main", "main:loop")
       /\ Goto("main", IF keep_running = 1 THEN "main:loop_body"
                       ELSE "main:shutdown")
       /\ UNCHANGED <<calls, qvars, hvars, pvars>>
    \/ /\ At("main", "main:loop_body")
       /\ IF ~connected_flag_
          THEN keep_running' = 0 /\ Goto("main", "main:shutdown")
          ELSE UNCHANGED keep_running /\ Goto("main", "main:loop")
       /\ UNCHANGED <<calls, qvars, hvars, publisher_should_run,
                      hackrf_should_be_streaming, hstate, dstate, mstate,
                      mainloc, devloc, netloc, rc>>

\* The shutdown sequence (lines 282-303).
main_shutdown ==
    \/ ClearRunFlag("main:shutdown", "main:join")
    \/ Join("main:join", "main:stop_check")
    \/ CallFrom("main:stop_check", "is_streaming", "main:stop_test")
    \/ /\ At("main", "main:stop_test")
       /\ IF ret["main"]
          THEN Call("main", "stop_rx:check", "main:deinit")
          ELSE Goto("main", "main:deinit")
       /\ DropRet("main")
       /\ UNCHANGED <<arg, popret, qvars, hvars, pvars>>
    \/ CallFrom("main:deinit", "deinit:check", "main:disconnect")
    \/ Disconnect("main:disconnect", "main:done")
    \/ ExitFrom("main:done", 0)

\* signal_handler(SIGINT or SIGTERM)
signal_handler ==
    /\ ProcessRunning
    /\ keep_running = 1
    /\ keep_running' = 0
    /\ UNCHANGED <<pc, calls, qvars, hvars, publisher_should_run,
                   hackrf_should_be_streaming, hstate, dstate, mstate,
                   mainloc, devloc, netloc, rc>>

\* The step of its startup or shutdown that main() takes, "none" for any
\* other step: the calls of lines 290-300 are made only when their tests
\* pass, the initial start_rx only when the flag is set, and the loop is
\* ended at lines 265-268 only when is_connected() is false.
MainStepTaken ==
    IF pc["main"] = <<>> \/ pc'["main"] = pc["main"]
    THEN "none"
    ELSE LET l == Top("main") IN
         CASE l = "main:construct_client" -> "construct_client"
           [] l = "main:construct_queue" -> "construct_queue"
           [] l = "main:register_control" -> "register_control"
           [] l = "main:start_thread" -> "start_thread"
           [] l = "main:init" -> "init"
           [] l = "main:set_vga_gain" -> "program"
           [] l = "main:connect" -> "connect"
           [] l = "main:check_connected" -> "await"
           [] l = "main:initial_start" /\ hackrf_should_be_streaming
                -> "start_rx"
           [] l = "main:loop_body" /\ ~connected_flag_ -> "disconnect_seen"
           [] l \in {"main:shutdown", "main:f1_clear", "main:f3_clear",
                     "main:f4_clear"} -> "clear_flag"
           [] l \in {"main:join", "main:f1_join", "main:f3_join",
                     "main:f4_join"} -> "join"
           [] l = "main:stop_test" /\ ret["main"] -> "stop_rx"
           [] l \in {"main:deinit", "main:f2_deinit", "main:f3_deinit",
                     "main:f4_deinit"} -> "deinit"
           [] l \in {"main:disconnect", "main:f4_disconnect"}
                /\ connected_flag_ -> "disconnect"
           [] OTHER -> "none"

RecordMainStep ==
    main_steps' = IF MainStepTaken = "none" THEN main_steps
                  ELSE Append(main_steps, MainStepTaken)

\* ------------------------------------------------- the queue on its own
\* One pushing thread and two popping threads call the queue's operations in
\* any order; the histories record what the calls returned.
Pushers == {"dev"}
Poppers == {"pub", "aux"}
PopOps == {"wait_and_pop:lock", "try_pop:lock", "wait_for_and_pop:lock"}
PopReturns == {"wait_and_pop:pred", "try_pop:body",
               "wait_for_and_pop:pred", "wait_for_and_pop:timedout"}

InitQ ==
    /\ pc = [t \in Threads |-> IF t \in Pushers \cup Poppers
                               THEN <<"client">> ELSE <<"off">>]
    /\ arg = [t \in Threads |-> 0]
    /\ ret = [t \in Threads |-> FALSE]
    /\ popret = [t \in Threads |-> <<>>]
    /\ queue_ = <<>>
    /\ max_size_ \in 0..MaxCapacity
    /\ mutex_ = NoThread
    /\ condition_ = {}
    /\ nextId = 1
    /\ pushed = <<>>
    /\ popped = <<>>
    /\ rejected = {}
    /\ lastpop = [t \in Threads |-> "none"]
    /\ InitProgram
    /\ cur = NoCommand
    /\ prev = NoCommand
    /\ main_steps = <<>>
    /\ delivered = <<>>
    /\ published = <<>>

ClientPush(t) ==
    /\ At(t, "client")
    /\ nextId <= MaxItems
    /\ arg' = [arg EXCEPT ![t] = nextId]
    /\ nextId' = nextId + 1
    /\ \/ Call(t, "try_push:lock", "client")
       \/ Call(t, "push:call", "client")
    /\ UNCHANGED <<ret, popret, qvars, pushed, popped, rejected, lastpop,
                   pvars, chist>>

ClientPop(t) ==
    /\ At(t, "client")
    /\ \E op \in PopOps : Call(t, op, "client")
    /\ lastpop' = [lastpop EXCEPT ![t] = "none"]
    /\ UNCHANGED <<arg, ret, popret, qvars, nextId, pushed, popped, rejected,
                   pvars, chist>>

\* The histories, from what the step returned to its caller.
RecordPush(t) ==
    IF At(t, "try_push:body")
    THEN /\ pushed' = IF ret'[t] THEN Append(pushed, arg[t]) ELSE pushed
         /\ rejected' = IF ret'[t] THEN rejected ELSE rejected \cup {arg[t]}
    ELSE UNCHANGED <<pushed, rejected>>

PopReturned(t) == Top(t) \in PopReturns /\ Len(pc'[t]) < Len(pc[t])

RecordPop(t) ==
    IF PopReturned(t) /\ popret'[t] # <<>>
    THEN popped' = Append(popped, popret'[t][1])
    ELSE UNCHANGED popped

\* The step of the pop a thread's last pop returned from.
RecordLastPop(t) ==
    IF PopReturned(t)
    THEN lastpop' = [lastpop EXCEPT ![t] = Top(t)]
    ELSE UNCHANGED lastpop

QPush(t) ==
    /\ try_push(t) \/ push(t)
    /\ RecordPush(t)
    /\ UNCHANGED <<nextId, popped, lastpop, pvars, chist>>

QPop(t) ==
    /\ wait_and_pop(t) \/ try_pop(t) \/ wait_for_and_pop(t)
    /\ RecordPop(t)
    /\ RecordLastPop(t)
    /\ UNCHANGED <<nextId, pushed, rejected, pvars, chist>>

NextQ ==
    \/ \E t \in Pushers : ClientPush(t) \/ QPush(t)
    \/ \E t \in Poppers : ClientPop(t) \/ QPop(t)

SpecQ == InitQ /\ [][NextQ]_vars

QueueSizes == 1..MaxCapacity

InitThreads ==
    /\ arg = [t \in Threads |-> <<>>]
    /\ ret = [t \in Threads |-> FALSE]
    /\ popret = [t \in Threads |-> <<>>]
    /\ queue_ = <<>>
    /\ mutex_ = NoThread
    /\ condition_ = {}
    /\ nextId = 1
    /\ pushed = <<>>
    /\ popped = <<>>
    /\ rejected = {}
    /\ lastpop = [t \in Threads |-> "none"]
    /\ cur = NoCommand
    /\ prev = NoCommand
    /\ main_steps = <<>>
    /\ delivered = <<>>
    /\ published = <<>>

\* ---------------------------------------------------------- the data path
\* The program from the moment main() enters its supervisory loop, with the
\* device streaming and the broker connected, until main() returns.  No
\* control message arrives.  The queue's operations are taken step by step.
InitPipe ==
    /\ pc = [t \in Threads |->
               CASE t = "main" -> <<"main:loop">>
                 [] t = "net" -> <<"net:idle">>
                 [] t = "pub" -> <<"pub:loop">>
                 [] t = "dev" -> <<"dev:idle">>
                 [] OTHER -> <<"off">>]
    /\ max_size_ \in QueueSizes
    /\ InitThreads
    /\ keep_running = 1
    /\ publisher_should_run = TRUE
    /\ hackrf_should_be_streaming = TRUE
    /\ device_ = Handle
    /\ streaming_ = TRUE
    /\ rx_callback_context_ = QueueContext
    /\ devOpen = TRUE
    /\ devStreaming = TRUE
    /\ connected_flag_ = TRUE
    /\ loop_started = "connecting"
    /\ subscribed = TRUE
    /\ time_waited_ms = 0
    /\ exit_code = -1
    /\ params_ok = TRUE
    /\ transfer = NoTransfer
    /\ cb_result = 0
    /\ cb_saw = 1
    /\ cb_reads = 0
    /\ cb_offered = FALSE
    /\ message = NoMessage
    /\ rc = "MOSQ_ERR_SUCCESS"
    /\ nCallbacks = 0
    /\ nCommands = 0
    /\ nConnEvents = 0
    /\ last_conn = <<"on_connect", 0>>

\* main(): the supervisory loop, then the shutdown.
MainPipe ==
    /\ \/ main_loop
       \/ main_shutdown
       \/ is_streaming("main")
       \/ stop_rx("main")
       \/ deinit("main")
    /\ UNCHANGED chist

\* The transport calls on_connect with some result code.
Connects == \E r \in ConnectResults : on_connect(r)

ConnectionPipe == (Connects \/ on_disconnect) /\ UNCHANGED chist

SignalPipe == signal_handler /\ UNCHANGED chist

\* The steps of the publisher thread outside mosquittopp::publish.
PublisherSteps ==
    \/ mqtt_publisher_thread_func("pub")
    \/ wait_for_and_pop("pub") /\ UNCHANGED pvars
    \/ publish_message("pub") /\ At("pub", "publish_message:check")

\* mosquittopp::publish returns.
PublishReturns ==
    publish_message("pub") /\ At("pub", "publish_message:publish")

PublisherPipe ==
    /\ ProcessRunning
    /\ PublisherSteps \/ PublishReturns
    /\ RecordPop("pub")
    /\ UNCHANGED <<nextId, pushed, rejected, lastpop, chist>>

\* The device runtime delivers a buffer, or takes the callback's result.
DeliveryPipe == device_runtime(MaxBuffers) /\ UNCHANGED chist

\* The steps of one invocation of the callback.
CallbackPipe ==
    /\ ProcessRunning
    /\ hackrf_rx_callback("dev") \/ (try_push("dev") /\ UNCHANGED pvars)
    /\ RecordPush("dev")
    /\ UNCHANGED <<nextId, popped, lastpop, chist>>

NextPipe ==
    \/ MainPipe
    \/ ConnectionPipe
    \/ SignalPipe
    \/ PublisherPipe
    \/ DeliveryPipe
    \/ CallbackPipe

SpecPipe == InitPipe /\ [][NextPipe]_vars

\* Fair scheduling: a thread that holds the queue's mutex goes on, and the
\* callback, whenever it can take a step again and again, takes it.  Nothing
\* obliges mosquittopp::publish to return.
HoldsMutex(t) == mutex_ = t

SpecPipeFair ==
    /\ SpecPipe
    /\ WF_vars(PublisherPipe /\ HoldsMutex("pub"))
    /\ SF_vars(CallbackPipe)

\* ------------------------------------------------------- the control path
\* The network thread handles control messages one after the other while
\* main() stays in its supervisory loop: no signal arrives and the device
\* delivers no buffer.  cur and prev record what each command found and did.
InitCtl == InitPipe

\* The history of the command in progress, from the step the network thread
\* takes.
RecordCommand(t) ==
    IF At(t, "cch:entry")
    THEN /\ cur' = [cmd |-> message.payload, pre |-> CompositeState,
                    calls |-> <<>>, ok |-> "none"]
         /\ prev' = prev
    ELSE IF pc'[t] = <<>>
    THEN UNCHANGED cmdhist
    ELSE IF At(t, "cch:pause_test") /\ Head(pc'[t]) = "stop_rx:check"
    THEN /\ cur' = [cur EXCEPT !.calls = Append(@, "stop_rx")]
         /\ prev' = prev
    ELSE IF At(t, "cch:resume_test") /\ Head(pc'[t]) = "start_rx:check"
    THEN /\ cur' = [cur EXCEPT !.calls = Append(@, "start_rx")]
         /\ prev' = prev
    ELSE IF Head(pc'[t]) \in {"cch:pause_set", "cch:resume_ret"}
            /\ Len(pc'[t]) < Len(pc[t])
    THEN /\ cur' = [cur EXCEPT !.ok = IF ret'[t] THEN "ok" ELSE "failed"]
         /\ prev' = prev
    ELSE IF At(t, "on_message:handled")
    THEN /\ prev' = cur
         /\ cur' = NoCommand
    ELSE UNCHANGED cmdhist

DeliveryCtl ==
    /\ on_message(MaxControl)
    /\ RecordCommand("net")
    /\ UNCHANGED <<main_steps, dhist>>

HandlerCtl ==
    /\ \/ control_command_handler("net")
       \/ is_streaming("net")
       \/ start_rx("net")
       \/ stop_rx("net")
    /\ RecordCommand("net")
    /\ UNCHANGED <<main_steps, dhist>>

ConnectionCtl == (Connects \/ on_disconnect) /\ UNCHANGED chist

NextCtl ==
    \/ DeliveryCtl
    \/ HandlerCtl
    \/ ConnectionCtl

SpecCtl == InitCtl /\ [][NextCtl]_vars

\* ------------------------------------------------------------ the program
\* main(), the publisher thread, the device runtime's transfer thread, the
\* transport's network thread and the signal handler, interleaved.  Here a
\* queue operation is one step, taken with the mutex free: what it does
\* with the mutex held, at the moment it holds it.
try_push_step(t) ==
    /\ At(t, "try_push:lock")
    /\ MutexFree
    /\ TryPushBody(t)
    /\ Return(t)
    /\ UNCHANGED <<arg, popret, max_size_, mutex_>>

\* wait_for_and_pop returns the head, or the empty result from an empty
\* queue once rel_time has expired.
wait_for_and_pop_step(t) ==
    /\ At(t, "wait_for_and_pop:lock")
    /\ MutexFree
    /\ IF NotEmpty
       THEN PopFront(t)
       ELSE /\ popret' = [popret EXCEPT ![t] = <<>>]
            /\ UNCHANGED queue_
    /\ Return(t)
    /\ UNCHANGED <<arg, ret, max_size_, mutex_, condition_>>

Init ==
    /\ pc = [t \in Threads |->
               CASE t = "main" -> <<"main:construct_client">>
                 [] t = "dev" -> <<"dev:idle">>
                 [] OTHER -> <<"off">>]
    /\ max_size_ = MaxCapacity
    /\ InitThreads
    /\ InitProgram

MainThread ==
    /\ \/ main_startup
       \/ main_failure
       \/ main_loop
       \/ main_shutdown
       \/ init("main")
       \/ is_streaming("main")
       \/ start_rx("main")
       \/ stop_rx("main")
       \/ deinit("main")
    /\ RecordMainStep
    /\ UNCHANGED <<cmdhist, dhist>>

NetworkThread ==
    /\ ProcessRunning
    /\ \/ Connects
       \/ on_disconnect
       \/ on_message(MaxCommands)
       \/ control_command_handler("net")
       \/ is_streaming("net")
       \/ start_rx("net")
       \/ stop_rx("net")
    /\ UNCHANGED chist

PublisherThread ==
    /\ ProcessRunning
    /\ \/ mqtt_publisher_thread_func("pub")
       \/ wait_for_and_pop_step("pub") /\ UNCHANGED <<hvars, pvars>>
       \/ publish_message("pub")
    /\ UNCHANGED chist

DeviceThread ==
    /\ ProcessRunning
    /\ \/ device_runtime(MaxCallbacks)
       \/ hackrf_rx_callback("dev")
       \/ try_push_step("dev") /\ UNCHANGED <<hvars, pvars>>
    /\ UNCHANGED chist

Signal == signal_handler /\ UNCHANGED chist

Next ==
    \/ MainThread
    \/ NetworkThread
    \/ PublisherThread
    \/ DeviceThread
    \/ Signal

Spec == Init /\ [][Next]_vars

\* ------------------------------------------------------------ the runtime
\* The program from the moment main() enters its supervisory loop, with the
\* device streaming and the broker connected, until main() returns: the
\* threads of the program without control messages, a queue operation
\* being one step.
MainRun ==
    /\ \/ main_loop
       \/ main_shutdown
       \/ is_streaming("main")
       \/ stop_rx("main")
       \/ deinit("main")
    /\ RecordMainStep
    /\ UNCHANGED <<cmdhist, dhist>>

DeviceRun ==
    /\ ProcessRunning
    /\ \/ device_runtime(MaxBuffers)
       \/ hackrf_rx_callback("dev")
       \/ try_push_step("dev") /\ UNCHANGED <<hvars, pvars>>
    /\ UNCHANGED chist

NextRun ==
    \/ MainRun
    \/ ConnectionPipe
    \/ SignalPipe
    \/ PublisherThread
    \/ DeviceRun

SpecRun == InitPipe /\ [][NextRun]_vars

\* Fair scheduling of the threads, with mosquittopp::publish and the device
\* library's calls returning: each thread that can take a step takes one.
SpecRunFair ==
    /\ SpecRun
    /\ WF_vars(MainRun)
    /\ WF_vars(PublisherThread)
    /\ WF_vars(DeviceRun)

\* The same with control messages arriving on the network thread: the whole
\* program from the moment main() enters its supervisory loop.
InitLoop == InitPipe /\ max_size_ = MaxCapacity

NextLoop ==
    \/ MainRun
    \/ NetworkThread
    \/ PublisherThread
    \/ DeviceThread
    \/ Signal

SpecLoop == InitLoop /\ [][NextLoop]_vars

\* ------------------------------------------------- the data end to end
\* The runtime again, with the histories of the data path: what the device
\* runtime delivered, what the publisher thread popped and what it gave to
\* mosquittopp::publish.
RecordDelivery ==
    delivered' = IF At("dev", "dev:idle") /\ transfer'.valid_length > 0
                 THEN Append(delivered, transfer')
                 ELSE delivered

RecordPopStep ==
    popped' = IF At("pub", "wait_for_and_pop:lock") /\ popret'["pub"] # <<>>
              THEN Append(popped, popret'["pub"][1])
              ELSE popped

\* publish(&mid, topic, payloadlen, payload, qos, retain): the payload is
\* the chunk's data() and size().
RecordPublish ==
    published' = IF At("pub", "publish_message:publish")
                 THEN Append(published, popret["pub"][1])
                 ELSE published

PublisherData ==
    /\ ProcessRunning
    /\ \/ mqtt_publisher_thread_func("pub")
       \/ /\ wait_for_and_pop_step("pub")
          /\ UNCHANGED <<nextId, pushed, rejected, lastpop, pvars>>
       \/ publish_message("pub")
    /\ RecordPopStep
    /\ RecordPublish
    /\ UNCHANGED <<cmdhist, main_steps, delivered, last_conn>>

DeviceData ==
    /\ ProcessRunning
    /\ \/ device_runtime(MaxBuffers)
       \/ hackrf_rx_callback("dev")
       \/ try_push_step("dev") /\ UNCHANGED <<hvars, pvars>>
    /\ RecordDelivery
    /\ UNCHANGED <<cmdhist, main_steps, published, last_conn>>

NextData ==
    \/ MainRun
    \/ ConnectionPipe
    \/ SignalPipe
    \/ PublisherData
    \/ DeviceData

SpecData == InitPipe /\ [][NextData]_vars

\* -------------------------------------------------------------- the pause
\* The pipeline while main() stays in its supervisory loop: the network
\* thread handles control messages, the device runtime delivers buffers and
\* the publisher thread pops and publishes.  The transport stays connected
\* and no signal arrives.
NetworkPause ==
    /\ ProcessRunning
    /\ \/ on_message(MaxMessages)
       \/ control_command_handler("net")
       \/ is_streaming("net")
       \/ start_rx("net")
       \/ stop_rx("net")
    /\ UNCHANGED chist

NextPause ==
    \/ NetworkPause
    \/ PublisherData
    \/ DeviceRun

SpecPause == InitLoop /\ [][NextPause]_vars

\* The publisher thread is scheduled, and mosquittopp::publish returns.
SpecPauseFair == SpecPause /\ WF_vars(PublisherData)

\* ------------------------------------------------------------ the startup
\* The program from main()'s first statement until main() enters its
\* supervisory loop or returns from a failed startup, with the other threads
\* running as in the whole program.
MainStart ==
    /\ \/ main_startup
       \/ main_failure
       \/ init("main")
       \/ start_rx("main")
       \/ stop_rx("main")
       \/ deinit("main")
    /\ RecordMainStep
    /\ UNCHANGED <<cmdhist, dhist>>

NextStart ==
    \/ MainStart
    \/ NetworkThread
    \/ PublisherThread
    \/ DeviceThread
    \/ Signal

SpecStart == Init /\ [][NextStart]_vars

\* ------------------------------------------------- the handler on its own
\* One thread calls the handler's methods in any order, so that each is
\* called in every state the handler can be in, while the device runtime
\* delivers buffers to the callback start_rx registered.  The destructor is
\* one more call of deinit().
HandlerMethods ==
    {"init", "start_rx:check", "stop_rx:check", "is_streaming", "deinit:check"}

InitHandler ==
    /\ pc = [t \in Threads |->
               CASE t = "main" -> <<"handler:client">>
                 [] t = "dev" -> <<"dev:idle">>
                 [] OTHER -> <<"off">>]
    /\ max_size_ = MaxCapacity
    /\ InitThreads
    /\ InitProgram

HandlerClient ==
    /\ At("main", "handler:client")
    /\ \E f \in HandlerMethods : Call("main", f, "handler:client")
    /\ UNCHANGED <<calls, qvars, hvars, pvars, chist>>

HandlerCall ==
    /\ \/ init("main")
       \/ start_rx("main")
       \/ stop_rx("main")
       \/ is_streaming("main")
       \/ deinit("main")
    /\ UNCHANGED chist

NextHandler ==
    \/ HandlerClient
    \/ HandlerCall
    \/ DeviceRun

SpecHandler == InitHandler /\ [][NextHandler]_vars

\* ------------------------------------------------------- the connection
\* The whole program from main()'s first statement, with the history of the
\* transport's connection callbacks.  No signal arrives: main() leaves its
\* supervisory loop when it sees the transport disconnected.
NetworkConn ==
    /\ ProcessRunning
    /\ \/ \E r \in ConnectResults :
            on_connect(r) /\ last_conn' = <<"on_connect", r>>
       \/ on_disconnect /\ last_conn' = <<"on_disconnect", 0>>
       \/ /\ \/ on_message(MaxMessages)
             \/ control_command_handler("net")
             \/ is_streaming("net")
             \/ start_rx("net")
             \/ stop_rx("net")
          /\ UNCHANGED last_conn
    /\ UNCHANGED <<cmdhist, main_steps, delivered, published>>

NextConn ==
    \/ MainThread
    \/ NetworkConn
    \/ PublisherThread
    \/ DeviceThread

SpecConn == Init /\ [][NextConn]_vars

\* ------------------------------------------------------------ the wakeups
\* The queue with blocking poppers: each popping thread calls wait_and_pop
\* or wait_for_and_pop once, at any moment, and the pushing thread pushes in
\* between.
BlockingPops == {"wait_and_pop:lock", "wait_for_and_pop:lock"}

WakeClientPop(t) ==
    /\ At(t, "client")
    /\ lastpop[t] = "none"
    /\ \E op \in BlockingPops : Call(t, op, "client")
    /\ UNCHANGED <<arg, ret, popret, qvars, nextId, pushed, popped, rejected,
                   lastpop, pvars, chist>>

WakePop(t) ==
    /\ wait_and_pop(t) \/ wait_for_and_pop(t)
    /\ RecordPop(t)
    /\ RecordLastPop(t)
    /\ UNCHANGED <<nextId, pushed, rejected, pvars, chist>>

NextWake ==
    \/ \E t \in Pushers : ClientPush(t) \/ QPush(t)
    \/ \E t \in Poppers : WakeClientPop(t) \/ WakePop(t)

SpecWake == InitQ /\ [][NextWake]_vars

\* The thread is blocked in condition_.wait or wait_for and has not been
\* notified.
Blocked(t) ==
    /\ pc[t] # <<>>
    /\ Top(t) \in {"wait_and_pop:wait", "wait_for_and_pop:wait"}
    /\ t \in condition_

\* A step of a pop other than leaving the wait unnotified, that is, by the
\* timeout or by a spurious wake-up.
NotifiedPop(t) == ~Blocked(t) /\ WakePop(t)

\* The threads are scheduled: a push that holds the mutex returns, and a
\* popper that is not blocked goes on.  Nothing makes a timeout expire or a
\* spurious wake-up happen.
SpecWakeFair ==
    /\ SpecWake
    /\ \A t \in Pushers : WF_vars(QPush(t))
    /\ \A t \in Poppers : WF_vars(NotifiedPop(t))

\* ---------------------------------------------------- claims on the queue
IsPrefix(s, t) == Len(s) <= Len(t) /\ \A i \in 1..Len(s) : s[i] = t[i]

NoDuplicates(s) == \A i, j \in 1..Len(s) : s[i] = s[j] => i = j

\* C1: a queue constructed with max_size C > 0 never stores more than C
\* items, whatever the interleaving of pushes and pops; a queue constructed
\* with max_size 0 never rejects a pushed item.
C1_BoundedOccupancy ==
    /\ max_size_ > 0 => Len(queue_) <= max_size_
    /\ max_size_ = 0 => rejected = {}

\* The bounded queue is full and has rejected an item.
C1_Witness == max_size_ = 2 /\ Len(queue_) = 2 /\ rejected # {}

\* C2: the items pops have returned are, in order, the first of the items
\* whose try_push returned true, and no rejected item is ever returned.
C2_Fifo ==
    /\ IsPrefix(popped, pushed)
    /\ Range(popped) \cap rejected = {}

\* Three accepted items were popped by a mix of threads, one was rejected.
C2_Witness == Len(popped) = 3 /\ rejected # {} /\ popret["pub"] # <<>>
              /\ popret["aux"] # <<>>

\* C3: a try_push on a bounded queue that holds max_size items returns false
\* and leaves the stored items as they were; on a queue that is not full it
\* returns true and the item becomes the tail.
C3_DropOnFull ==
    [][\A t \in Pushers :
         (At(t, "try_push:body") /\ pc'[t] # pc[t]) =>
            IF max_size_ > 0 /\ Len(queue_) = max_size_
            THEN ~ret'[t] /\ queue_' = queue_
            ELSE ret'[t] /\ queue_' = Append(queue_, arg[t])]_vars

\* The scenario with C = 2: 1 and 2 accepted, 3 rejected, 1 popped, 4
\* accepted, then 2 and 4 popped.
C3_Witness ==
    /\ max_size_ = 2
    /\ pushed = <<1, 2, 4>>
    /\ rejected = {3}
    /\ popped = <<1, 2, 4>>

\* C4: wait_for_and_pop returns the empty result only from an empty queue,
\* which it leaves empty; when it returns an item, the item was the head and
\* exactly that item was removed.
C4_TimedPop ==
    [][\A t \in Poppers :
         (pc[t] # <<>> /\ Top(t) \in {"wait_for_and_pop:pred", "wait_for_and_pop:timedout"}
            /\ Len(pc'[t]) < Len(pc[t])) =>
            IF popret'[t] = <<>>
            THEN queue_ = <<>> /\ queue_' = <<>>
            ELSE /\ queue_ # <<>>
                 /\ popret'[t] = <<Head(queue_)>>
                 /\ queue_' = Tail(queue_)]_vars

\* Two wait_for_and_pop calls have timed out: one returned the item that
\* arrived before it held the mutex again, the other the empty result.
C4_Witness ==
    /\ lastpop["pub"] = "wait_for_and_pop:timedout"
    /\ popret["pub"] # <<>>
    /\ lastpop["aux"] = "wait_for_and_pop:timedout"
    /\ popret["aux"] = <<>>
    /\ pc["pub"] = <<"client">>
    /\ pc["aux"] = <<"client">>

\* C5: with one pusher and several poppers, the accepted items are exactly
\* the items popped plus the items stored, and no item is popped twice.
C5_Conservation ==
    /\ Len(pushed) = Len(popped) + Len(queue_)
    /\ Range(pushed) = Range(popped) \cup Range(queue_)
    /\ NoDuplicates(popped \o queue_)

\* Both poppers hold an item, one more is stored, while the pusher is
\* inside try_push.
C5_Witness ==
    /\ popret["pub"] # <<>>
    /\ popret["aux"] # <<>>
    /\ popret["pub"] # popret["aux"]
    /\ queue_ # <<>>
    /\ At("dev", "try_push:body")

\* ------------------------------------------------ claims on the data path
InPublish(t) ==
    pc[t] # <<>>
    /\ Top(t) \in {"publish_message:check", "publish_message:publish"}

WaitingOnCondition(t) ==
    pc[t] # <<>> /\ Top(t) \in {"wait_and_pop:wait", "wait_for_and_pop:wait"}

DeviceCalls ==
    {"init", "is_streaming", "start_rx:check", "start_rx:call",
     "start_rx:started", "stop_rx:check", "stop_rx:call", "stop_rx:failed",
     "stop_rx:stopped", "deinit:check", "deinit:close", "deinit:null"}

InDeviceCall(t) == Range(pc[t]) \cap DeviceCalls # {}

\* The device runtime is inside an invocation of hackrf_rx_callback.
InCallback == Len(pc["dev"]) > 1

MutexNotHeldAcross ==
    \A t \in Threads :
        HoldsMutex(t) =>
            ~InPublish(t) /\ ~WaitingOnCondition(t) /\ ~InDeviceCall(t)

\* C6: no thread holds the queue's mutex while it is inside publish_message,
\* while it waits on the queue's condition variable or while it is inside a
\* call to the device; and, under fair scheduling, every invocation of
\* hackrf_rx_callback returns, whether or not publish ever does.
C6_ProducerNotBlocked ==
    /\ []MutexNotHeldAcross
    /\ InCallback ~> ~InCallback

\* The callback holds the mutex inside try_push while the publisher thread
\* is inside mosquittopp::publish.
C6_Witness ==
    /\ At("pub", "publish_message:publish")
    /\ At("dev", "try_push:body")
    /\ HoldsMutex("dev")

\* C7: an invocation of hackrf_rx_callback reads keep_running once; it
\* returns -1 exactly when that read saw the flag cleared, and then it has
\* offered nothing to the queue; otherwise it returns 0 and has offered the
\* chunk exactly when valid_length > 0.
C7_CallbackContract ==
    At("dev", "dev:returned") =>
        /\ cb_reads = 1
        /\ cb_result \in {-1, 0}
        /\ (cb_result = -1) <=> (cb_saw = 0)
        /\ cb_saw = 0 => ~cb_offered
        /\ cb_saw # 0 => (cb_offered <=> transfer.valid_length > 0)

\* An invocation has put a chunk in the queue; a later one, called with a
\* non-empty buffer after keep_running was cleared, has returned -1.
C7_Witness ==
    /\ At("dev", "dev:returned")
    /\ cb_result = -1
    /\ transfer.valid_length > 0
    /\ pushed # <<>>

\* --------------------------------------------- claims on the control path
\* The network thread has handled the same command twice in a row, the first
\* time from the given composite state, and has not yet returned from the
\* second.
TwiceInARow(cmd, from) ==
    /\ At("net", "on_message:handled")
    /\ prev.cmd = cmd
    /\ prev.pre = from
    /\ cur.cmd = cmd

StartStopLabels ==
    {"start_rx:check", "start_rx:call", "start_rx:started", "stop_rx:check",
     "stop_rx:call", "stop_rx:failed", "stop_rx:stopped"}

DeinitLabels == {"deinit:check", "deinit:close", "deinit:null"}

\* The thread is executing start_rx, stop_rx or, when asked, deinit.
InTransition(t, labels) == Range(pc[t]) \cap labels # {}

\* main() has run its shutdown sequence to the end.
ShutdownComplete ==
    \/ At("main", "main:done")
    \/ pc["main"] = <<>> /\ exit_code = 0

\* C9: once the shutdown sequence has completed, the device does not have
\* the callback registered, however a RESUME on the network thread was
\* interleaved with it.
C9_NotRegisteredAfterShutdown == ShutdownComplete => ~devStreaming

\* C10: the network thread is never inside start_rx or stop_rx while
\* main() is inside start_rx, stop_rx or deinit.
C10_OneTransitionAtATime ==
    ~(/\ InTransition("net", StartStopLabels)
      /\ InTransition("main", StartStopLabels \cup DeinitLabels))

\* C11: from the moment the shutdown sequence has completed the publisher
\* thread has ended, no thread is inside an operation of the queue and no
\* step puts a chunk in the queue or takes one out, whatever callback or
\* control command is still in flight.
C11_QuietAfterShutdown ==
    [][ShutdownComplete =>
          /\ PublisherFinished
          /\ \A t \in Threads : ~At(t, "try_push:lock")
          /\ \A t \in Threads : ~At(t, "wait_for_and_pop:lock")
          /\ queue_' = queue_]_vars

\* The shutdown sequence has completed with a chunk left in the queue and
\* the network thread inside the handler of a control command.
C11_Witness ==
    /\ At("main", "main:done")
    /\ queue_ # <<>>
    /\ Len(pc["net"]) > 1

\* The shutdown steps among the steps main() has taken, in the order taken.
IsShutdownStep(x) ==
    x \in {"clear_flag", "join", "stop_rx", "deinit", "disconnect"}

ShutdownStepsTaken == SelectSeq(main_steps, IsShutdownStep)

\* The place of a shutdown step in the order: clear the run flag, join,
\* stop streaming, release the device, disconnect.
StepRank(x) ==
    CASE x = "clear_flag" -> 1
      [] x = "join" -> 2
      [] x = "stop_rx" -> 3
      [] x = "deinit" -> 4
      [] x = "disconnect" -> 5

InOrder(s) == \A i, j \in 1..Len(s) : i < j => StepRank(s[i]) < StepRank(s[j])

\* C12: on every path of main(), the shutdown steps it has taken were taken
\* in the order clear the run flag, join the publisher thread, stop
\* streaming, release the device, disconnect the transport.
C12_ShutdownOrder == InOrder(ShutdownStepsTaken)

\* main() has returned (the process was not killed).
MainReturned == pc["main"] = <<>> /\ exit_code \in {0, 1}

Taken(x) == \E i \in 1..Len(main_steps) : main_steps[i] = x

\* C13: when main() has returned after it started the publisher thread, it
\* has cleared publisher_should_run and joined the thread, and the thread
\* has ended.
C13_JoinedBeforeReturn ==
    MainReturned /\ Taken("start_thread") =>
        /\ ~publisher_should_run
        /\ Taken("clear_flag")
        /\ Taken("join")
        /\ PublisherFinished

\* C14: when a device parameter setter has failed, main() does not call
\* start_rx, and when it returns it returns a non-zero status.
C14_SetterFailureAborts ==
    ~params_ok =>
        /\ ~Taken("start_rx")
        /\ MainReturned => exit_code # 0

\* The startup steps among the steps main() has taken, in the order taken.
IsStartupStep(x) ==
    x \in {"init", "program", "construct_queue", "construct_client",
           "register_control", "start_thread", "connect", "await", "start_rx"}

StartupStepsTaken == SelectSeq(main_steps, IsStartupStep)

\* The place of a startup step in the order: open the device, program it,
\* construct the queue, construct the client, register the control
\* callback, start the publisher thread, connect, await the connection,
\* register the callback.
StartupRank(x) ==
    CASE x = "init" -> 1
      [] x = "program" -> 2
      [] x = "construct_queue" -> 3
      [] x = "construct_client" -> 4
      [] x = "register_control" -> 5
      [] x = "start_thread" -> 6
      [] x = "connect" -> 7
      [] x = "await" -> 8
      [] x = "start_rx" -> 9

InStartupOrder(s) ==
    \A i, j \in 1..Len(s) : i < j => StartupRank(s[i]) < StartupRank(s[j])

PublisherRunning == pc["pub"] # <<"off">> /\ pc["pub"] # <<>>

\* C15: the startup steps main() has taken were taken in the order device
\* opened and programmed, queue, client, control callback, publisher thread,
\* connection, callback registration; a setter that failed is followed by
\* no connection and no registration; and the publisher thread runs only
\* after the device has been opened and programmed.
C15_StartupOrder ==
    /\ InStartupOrder(StartupStepsTaken)
    /\ ~params_ok => ~Taken("connect") /\ ~Taken("start_rx")
    /\ PublisherRunning => Taken("init") /\ Taken("program")

\* C16: a disconnect that ended the supervisory loop was not a transient
\* one: the connected flag is not true again after main() has left the loop
\* because it saw the flag false.
C16_TransientDisconnectSurvived ==
    ~(Taken("disconnect_seen") /\ connected_flag_)

InSupervisoryLoop ==
    pc["main"] # <<>> /\ Top("main") \in {"main:loop", "main:loop_body"}

\* A signal has cleared keep_running while main() is in its supervisory loop.
SignalledInLoop == InSupervisoryLoop /\ keep_running = 0

\* main() has returned 0 after the whole shutdown sequence: the publisher
\* thread has ended and was joined, the device does not stream, the handle
\* is released and the transport is disconnected or told to disconnect.
CleanExit ==
    /\ pc["main"] = <<>>
    /\ exit_code = 0
    /\ PublisherFinished
    /\ ~publisher_should_run
    /\ Taken("join")
    /\ ~devStreaming
    /\ ~devOpen
    /\ device_ = NULL
    /\ ~connected_flag_ \/ loop_started = "disconnecting"

\* The supervisory loop is left only with keep_running cleared by a signal or
\* at the test that saw the transport disconnected.
LoopLeftOnlyBy ==
    InSupervisoryLoop /\ pc'["main"] = <<"main:shutdown">> =>
        \/ keep_running = 0
        \/ At("main", "main:loop_body") /\ ~connected_flag_

\* Once publisher_should_run is cleared the publisher thread begins no
\* further iteration.
NoNewIteration ==
    ~publisher_should_run /\ At("pub", "pub:loop") /\ pc'["pub"] # pc["pub"]
        => pc'["pub"] = <<>>

\* C17: once a signal has cleared keep_running while main() is in its
\* supervisory loop, under fair scheduling main() returns 0 with the
\* publisher thread joined, the device stopped and released and the
\* transport disconnected; the publisher thread begins no iteration after
\* its run flag is cleared; and the loop ends only by a signal or by an
\* observed disconnect.
C17_SignalShutsDown ==
    /\ [][LoopLeftOnlyBy /\ NoNewIteration]_vars
    /\ SignalledInLoop ~> CleanExit

\* The signal arrived while the device was inside the callback and the
\* publisher thread inside mosquittopp::publish, with the transport
\* connected.
C17_Witness ==
    /\ SignalledInLoop
    /\ InCallback
    /\ At("pub", "publish_message:publish")
    /\ connected_flag_
    /\ devStreaming

\* The network thread has handled the command and has not yet returned from
\* on_message; cur tells what the handler found and did.
Handled(cmd) == At("net", "on_message:handled") /\ cur.cmd = cmd

\* C18: a RESUME handled from a composite state other than streaming has
\* called start_rx, once; when the call succeeded the registered context is
\* the queue, as at the initial start, and when it failed the flag is
\* false.
C18_ResumeStartsWhenNotStreaming ==
    Handled("RESUME") /\ cur.pre # "streaming" =>
        /\ cur.calls = <<"start_rx">>
        /\ cur.ok = "ok" => rx_callback_context_ = QueueContext
        /\ cur.ok = "failed" => ~hackrf_should_be_streaming

\* The network thread takes a step inside the control command handler.
HandlerStep == Len(pc["net"]) > 1 /\ pc'["net"] # pc["net"]

\* C19: a RESUME handled from the paused state has called start_rx once;
\* when the device refused the registration the flag and streaming_ are
\* false, the device does not stream and the process runs on, and when the
\* device accepted it, also after an earlier refusal, the device streams
\* with streaming_ and the flag true.  No step of the handler changes the
\* queue.
C19_FailedResumeStaysPaused ==
    /\ [](Handled("RESUME") /\ cur.pre = "paused" =>
            /\ cur.calls = <<"start_rx">>
            /\ cur.ok \in {"ok", "failed"}
            /\ ProcessRunning
            /\ IF cur.ok = "failed"
               THEN /\ ~hackrf_should_be_streaming
                    /\ ~streaming_
                    /\ ~devStreaming
               ELSE /\ hackrf_should_be_streaming
                    /\ streaming_
                    /\ devStreaming)
    /\ [][HandlerStep => queue_' = queue_]_vars

\* After a PAUSE, a RESUME that the device refused was followed by a RESUME
\* that it accepted.
C19_Witness ==
    /\ TwiceInARow("RESUME", "paused")
    /\ prev.ok = "failed"
    /\ cur.ok = "ok"
    /\ devStreaming
    /\ hackrf_should_be_streaming

\* C20: a PAUSE handled from the streaming state, the transport connected or
\* not, has called stop_rx once, and afterwards the device delivers no
\* callback and hackrf_should_be_streaming is false.
C20_PauseStopsDelivery ==
    Handled("PAUSE") /\ cur.pre = "streaming" =>
        /\ cur.calls = <<"stop_rx">>
        /\ ~devStreaming
        /\ ~hackrf_should_be_streaming

\* ----------------------------------------------- claims on the publisher
\* The publisher thread takes the step that follows its pop: the tests of
\* lines 61 and 63.
ConsumerDecides == At("pub", "pub:got") /\ pc'["pub"] # pc["pub"]

\* The step calls publish_message.
PublishCalled ==
    /\ ~InPublish("pub")
    /\ pc'["pub"] # <<>>
    /\ Head(pc'["pub"]) \in {"publish_message:check", "publish_message:publish"}

\* The step ends the iteration: the chunk, if any, is dropped and the thread
\* is at the loop's test again.
NextIteration == pc'["pub"] = <<"pub:loop">> /\ popret'["pub"] = <<>>

\* C21: for every chunk popped, publish_message is called exactly when the
\* publisher thread's read of the connected flag returned true; a chunk
\* popped while the flag reads false is dropped without a publish and the
\* thread goes to its next iteration, whatever the streaming state; and
\* publish_message is called at no other step.
C21_PublishIffConnected ==
    [][/\ ConsumerDecides /\ popret["pub"] # <<>> =>
            IF connected_flag_
            THEN PublishCalled /\ popret'["pub"] = popret["pub"]
            ELSE ~PublishCalled /\ NextIteration
       /\ ConsumerDecides /\ popret["pub"] = <<>> =>
            ~PublishCalled /\ NextIteration
       /\ PublishCalled => ConsumerDecides]_vars

\* The publisher thread is inside publish_message with a chunk it popped
\* while the stream is paused; the connection has dropped since it read the
\* flag.
C21_Witness ==
    /\ At("pub", "publish_message:check")
    /\ popret["pub"] # <<>>
    /\ ~connected_flag_
    /\ ~hackrf_should_be_streaming
    /\ ~devStreaming

\* The first valid_length bytes of a transfer's buffer.
FirstBytes(tr) == [k \in 1..tr.valid_length |-> tr.buffer[k]]

\* s is t with some of its elements left out: each element of s is an
\* element of t of its own, in the same order.
Embeds(s, t) ==
    \E f \in [1..Len(s) -> 1..Len(t)] :
        /\ \A i \in 1..Len(s) : s[i] = t[f[i]]
        /\ \A i, j \in 1..Len(s) : i < j => f[i] < f[j]

DeliveredBytes == [i \in 1..Len(delivered) |-> FirstBytes(delivered[i])]

\* C22: the payloads given to mosquittopp::publish are, in order and each at
\* most once, the first valid_length bytes of some of the non-empty buffers
\* the device runtime delivered to hackrf_rx_callback.
C22_EndToEnd == Embeds(published, DeliveredBytes)

\* Of two buffers delivered, the first was not published; the second, of
\* which one byte was valid, was.
C22_Witness ==
    /\ Len(delivered) = 2
    /\ delivered[2].valid_length = 1
    /\ delivered[1].valid_length = 2
    /\ published = <<FirstBytes(delivered[2])>>

\* The publisher thread is inside an operation that puts a chunk in the
\* queue.
PushingBack ==
    Range(pc["pub"]) \cap {"try_push:lock", "try_push:body", "push:call"} # {}

\* The publisher thread takes a step after publish_message has returned, or
\* the step in which mosquittopp::publish returns.
AfterPublish == At("pub", "pub:rc") /\ pc'["pub"] # pc["pub"]

PublishReturning ==
    At("pub", "publish_message:publish") /\ pc'["pub"] # pc["pub"]

\* C24: the payloads published are, in order and each at most once, chunks
\* the publisher thread popped; whatever publish returned, the step that
\* follows it ends the iteration with no chunk held, publishes nothing again
\* and leaves the queue as it is, as does the return of publish; the
\* thread never pushes, holds no chunk at the loop's test, and is still in
\* its loop after a failure.
C24_NoRetry ==
    /\ [](Embeds(published, popped))
    /\ [](~PushingBack)
    /\ [](At("pub", "pub:loop") => popret["pub"] = <<>>)
    /\ [][AfterPublish =>
             /\ NextIteration
             /\ queue_' = queue_
             /\ published' = published]_vars
    /\ [][PublishReturning =>
             /\ pc'["pub"] = <<"pub:rc">>
             /\ queue_' = queue_]_vars

\* mosquittopp::publish has returned a failure code for the first chunk
\* popped, with the second chunk waiting in the queue.
C24_Witness ==
    /\ At("pub", "pub:rc")
    /\ rc = "MOSQ_ERR_NOMEM"
    /\ Len(popped) = 1
    /\ Len(published) = 1
    /\ queue_ # <<>>

\* ------------------------------------ further claims on the control path
HandlerLabels ==
    {"cch:entry", "cch:pause_test", "cch:pause_set", "cch:resume_test",
     "cch:resume_ret"}

InHandler == Range(pc["net"]) \cap HandlerLabels # {}

\* The network thread takes the handler's first step with a payload that is
\* neither PAUSE nor RESUME.
UnknownCommandStep ==
    /\ At("net", "cch:entry")
    /\ message.payload \notin {"PAUSE", "RESUME"}
    /\ pc'["net"] # pc["net"]

\* on_message takes its step with a message of another topic.
OtherTopicStep ==
    /\ At("net", "on_message")
    /\ message.topic # "control_topic"
    /\ pc'["net"] # pc["net"]

StreamingStateUnchanged ==
    /\ hackrf_should_be_streaming' = hackrf_should_be_streaming
    /\ streaming_' = streaming_
    /\ devStreaming' = devStreaming
    /\ rx_callback_context_' = rx_callback_context_
    /\ queue_' = queue_

\* C25: a control message whose payload is neither PAUSE nor RESUME makes
\* the handler return at once: it calls neither start_rx nor stop_rx and
\* leaves the flag, the device's streaming state and the queue as they
\* were; and a message of another topic makes on_message return without
\* calling the handler, which runs only for messages of the control topic.
C25_UnknownCommandIgnored ==
    /\ [](At("net", "cch:entry") => message.topic = "control_topic")
    /\ [](At("net", "on_message:handled") /\ cur.cmd \notin {"PAUSE", "RESUME"}
            => cur.calls = <<>> /\ cur.ok = "none" /\ CompositeState = cur.pre)
    /\ [][UnknownCommandStep =>
             /\ pc'["net"] = Tail(pc["net"])
             /\ StreamingStateUnchanged]_vars
    /\ [][OtherTopicStep =>
             /\ pc'["net"] = <<"net:idle">>
             /\ StreamingStateUnchanged]_vars

\* A payload that differs from PAUSE only in its case was handled while the
\* device streamed, after a PAUSE and a RESUME, and the device still
\* streams.
C25_Witness ==
    /\ Handled("pause")
    /\ cur.pre = "streaming"
    /\ prev.cmd = "RESUME"
    /\ prev.ok = "ok"
    /\ devStreaming
    /\ hackrf_should_be_streaming

\* -------------------------------------------------- claims on the pause
\* The network thread takes a step of the handler's PAUSE branch.
PauseStep ==
    /\ \/ At("net", "cch:entry") /\ message.payload = "PAUSE"
       \/ Range(pc["net"]) \cap {"cch:pause_test", "cch:pause_set"} # {}
    /\ pc'["net"] # pc["net"]

\* The expected state is PAUSED.
Paused == ~hackrf_should_be_streaming

\* The chunks the queue has accepted that were popped or are stored.
Accepted == Len(popped) + Len(queue_)

\* C28: no step of the handler's PAUSE branch changes the queue; and under
\* fair scheduling every chunk that is in the queue while the expected
\* state is PAUSED is popped by the publisher thread, which publishes
\* nothing but chunks it popped.
C28_PauseKeepsQueue ==
    /\ [][PauseStep => queue_' = queue_ /\ popped' = popped]_vars
    /\ [](Embeds(published, popped))
    /\ \A k \in 1..MaxBuffers :
          (Paused /\ Accepted >= k) ~> (Len(popped) >= k)

\* After the only command, a PAUSE, the device has stopped; the publisher
\* thread is publishing the first chunk and the second waits in the queue,
\* the transport being connected.
C28_Witness ==
    /\ Paused
    /\ ~devStreaming
    /\ nCommands = 1
    /\ pc["net"] = <<"net:idle">>
    /\ connected_flag_
    /\ At("pub", "publish_message:publish")
    /\ Len(popped) = 1
    /\ Len(queue_) = 1

\* ------------------------------------------------ claims on the startup
\* The number of polls the wait has made.
Polls == time_waited_ms \div ConnectPollMs

MaxPolls == ConnectTimeoutMs \div ConnectPollMs

\* main() takes a step of the wait, or the test that follows it.
WaitStep == At("main", "main:wait") /\ pc'["main"] # pc["main"]

CheckStep == At("main", "main:check_connected") /\ pc'["main"] # pc["main"]

\* main() read the flag false at the test after the wait.
ReadFalseAfterWait ==
    /\ Taken("await")
    /\ ~Taken("start_rx")
    /\ ~At("main", "main:initial_start")

\* The callback is registered, or has been.
EverRegistered ==
    \/ devStreaming
    \/ streaming_
    \/ rx_callback_context_ # NULL
    \/ nCallbacks > 0
    \/ InTransition("main", {"start_rx:call", "start_rx:started"})
    \/ InTransition("net", {"start_rx:call", "start_rx:started"})

\* C27: the wait for the connection makes at most 50 polls of 100 ms and
\* ends at once when the flag is true or a signal has arrived; the callback
\* is never registered before main() has read the flag true after the wait;
\* and when main() read it false it goes to the exit of the failed startup
\* without another attempt, the callback is never registered and the
\* process ends with a non-zero status.
C27_BoundedConnectWait ==
    /\ [](Polls <= MaxPolls /\ Polls * ConnectPollMs = time_waited_ms)
    /\ [](EverRegistered => Taken("start_rx"))
    /\ [](ReadFalseAfterWait =>
            /\ ~EverRegistered
            /\ ~Taken("connect") \/ Len(SelectSeq(main_steps, LAMBDA x : x = "connect")) = 1
            /\ exit_code # 0
            /\ MainReturned => exit_code = 1)
    /\ [][WaitStep /\ (connected_flag_ \/ keep_running = 0 \/ Polls = MaxPolls)
             => pc'["main"] = <<"main:check_connected">>]_vars
    /\ [][CheckStep =>
             pc'["main"] = <<IF connected_flag_ THEN "main:initial_start"
                             ELSE "main:f3_deinit">>]_vars

\* ------------------------------------------------ claims on the handler
\* deinit() is about to call hackrf_close(device_).
ClosingHandle(t) == At(t, "deinit:close") /\ device_ # NULL

\* The thread returns from deinit().
DeinitReturns(t) ==
    /\ pc[t] # <<>>
    /\ Top(t) \in {"deinit:close", "deinit:null"}
    /\ Len(pc'[t]) < Len(pc[t])

\* A step of deinit() itself, not of the stop_rx it calls.
DeinitStep(t) ==
    /\ pc[t] # <<>>
    /\ Top(t) \in DeinitLabels
    /\ pc'[t] # pc[t]

\* C26: deinit() returns with device_ null and streaming_ false, from
\* whatever state it was called in; when it closes the handle the device
\* delivers no callback any more; it closes only a handle that is open, so
\* no handle is closed twice; and on a handler that holds no handle it calls
\* neither stop_rx nor hackrf_close and changes nothing.
C26_DeinitReleases ==
    /\ [](ClosingHandle("main") => ~devStreaming /\ devOpen)
    /\ [][DeinitReturns("main") =>
             device_' = NULL /\ ~streaming_' /\ ~devOpen' /\ ~devStreaming']_vars
    /\ [][DeinitStep("main") /\ device_ = NULL =>
             /\ Head(pc'["main"]) # "stop_rx:check"
             /\ UNCHANGED <<hstate, dstate>>]_vars

\* -------------------------------------------- claims on the connection
\* A step of main(), of the publisher thread, of the device runtime, or of
\* the network thread inside on_message and the control command handler.
OutsideConnectionCallbacks ==
    \/ pc'["main"] # pc["main"]
    \/ pc'["pub"] # pc["pub"]
    \/ pc'["dev"] # pc["dev"]
    \/ pc'["net"] # pc["net"]

\* C23: the connected flag is true exactly when the transport's last
\* connection callback was an on_connect with result code 0, and no step
\* outside on_connect and on_disconnect changes it: not connect_to_broker,
\* disconnect_from_broker, publish_message, set_control_topic, on_message,
\* the publisher thread, the control command handler or main().
C23_FlagFollowsCallbacks ==
    /\ [](connected_flag_ <=> last_conn = <<"on_connect", 0>>)
    /\ [][OutsideConnectionCallbacks =>
             connected_flag_' = connected_flag_]_vars

\* The broker refused the first connection and accepted the second while
\* main() waited; main() is in its supervisory loop.
C23_Witness ==
    /\ connected_flag_
    /\ nConnEvents = 2
    /\ At("main", "main:loop")

\* ------------------------------------------------ claims on the dispatcher
\* No control command is in the middle of executing.
NoCommandExecuting == pc["net"] = <<"net:idle">>

\* The handler would act on a PAUSE handled now: both operands of the test
\* of line 164 are true.
PauseActs == PauseWanted /\ IsStreamingResults = {TRUE}

\* The handler would act on a RESUME handled now: both operands of the test
\* of line 172 are true.
ResumeActs == ResumeWanted /\ IsStreamingResults = {FALSE}

\* C29: while main() is in its supervisory loop and no command is executing,
\* a PAUSE or a RESUME handled now would call stop_rx or start_rx: the
\* dispatcher is never in a state where both commands are ignored.
C29_OneCommandActs ==
    NoCommandExecuting => PauseActs \/ ResumeActs

\* The initial start has completed and the shutdown has not begun.
Supervising ==
    /\ InSupervisoryLoop
    /\ keep_running = 1
    /\ connected_flag_

\* C30: from the completion of the initial start until the shutdown begins,
\* whenever no control command is executing the expected flag equals the
\* handler's streaming_ flag, also when commands were handled while main()
\* performed the initial start.
C30_FlagEqualsStreaming ==
    Supervising /\ NoCommandExecuting =>
        hackrf_should_be_streaming = streaming_

\* ------------------------------------------------- claims on the wakeups
\* The popping threads that are inside their pop.
InPop == {t \in Poppers : pc[t] # <<"client">>}

\* C31: under fair scheduling, with no timeout expiring unless it happens
\* to, k poppers inside wait_and_pop or wait_for_and_pop, blocked or not,
\* and k items in the queue lead to k more items popped: a popper blocked
\* on the empty queue is woken by the push and returns with an item.
C31_NoLostWakeup ==
    \A k \in 1..Cardinality(Poppers) : \A n \in 0..Cardinality(Poppers) :
        (Cardinality(InPop) >= k /\ Len(queue_) >= k /\ Len(popped) = n)
            ~> (Len(popped) >= n + k)

\* Both poppers blocked on the empty queue, one in wait_and_pop and one in
\* wait_for_and_pop; two pushes have succeeded and notified both.
C31_Witness ==
    /\ At("pub", "wait_and_pop:wait")
    /\ At("aux", "wait_for_and_pop:wait")
    /\ condition_ = {}
    /\ Len(pushed) = 2
    /\ Len(queue_) = 2
    /\ popped = <<>>

=============================================================================
